---- MODULE Spec2Model ----
(***************************************************************************)
(* A model of the Databricks MCP server of src/main.py: three tools         *)
(* (get_table_schema, execute_sql_query, list_tables) over one connection   *)
(* factory (get_databricks_connection).                                     *)
(*                                                                          *)
(* Python values: a str is a TLA+ string, None is the value None below (a   *)
(* string no modelled input equals), a list or tuple is a sequence, a dict  *)
(* with fixed keys is a record.  A tool invocation is a process: pc[i] is   *)
(* the statement it is about to run, frame[i] its local variables.  The SQL *)
(* client (databricks.sql) is the environment: every call into it either    *)
(* raises or answers, chosen by the action's parameters.                    *)
(***************************************************************************)
EXTENDS Integers, Sequences, FiniteSets, TLC

\* ------------------------------------------------------------------ bounds
NumInv == 2          \* invocation slots the protocol layer may run at once
MaxCalls == 2        \* invocations dispatched in one behaviour
MaxRows == 3         \* rows the engine holds for one statement
MaxN == 2            \* largest max_rows argument (the smallest is -1)
MaxPieces == 3       \* pieces a configured host is assembled from

Inv == 1..NumInv

\* --------------------------------------------------------- Python values
None == "<None>"

\* bool(v) of a str | None value
Truthy(v) == v # None /\ v # ""

\* mutant of Or: the configured default wins over the argument
Or_default_first(a, b) == IF Truthy(b) THEN b ELSE a

\* a or b
Or(a, b) == IF Truthy(a) THEN a ELSE b

\* s.startswith(p)
startswith(s, p) == Len(s) >= Len(p) /\ SubSeq(s, 1, Len(p)) = p

\* s.replace(old, new), old non-empty: every non-overlapping occurrence,
\* scanning from the left
RECURSIVE replace(_, _, _)
replace(s, old, new) ==
    IF Len(s) < Len(old) THEN s
    ELSE IF SubSeq(s, 1, Len(old)) = old
         THEN new \o replace(SubSeq(s, Len(old) + 1, Len(s)), old, new)
         ELSE SubSeq(s, 1, 1) \o replace(SubSeq(s, 2, Len(s)), old, new)

Range(s) == {s[k] : k \in 1..Len(s)}

\* the sequences over S of length at most n
SeqsUpTo(S, n) == UNION {[1..k -> S] : k \in 0..n}

\* ------------------------------------------------------------------ state
VARIABLES
    config,     \* DATABRICKS_HOST, _TOKEN, _HTTP_PATH, _CATALOG, _SCHEMA
    pc,         \* pc[i]: where invocation i is
    op,         \* op[i]: the tool invocation i runs
    request,    \* request[i]: the arguments as the caller passed them
    frame,      \* frame[i]: the local variables of invocation i
    ret,        \* ret[i]: the mapping invocation i returned
    thrown,     \* thrown[i]: str(e) of the exception invocation i last saw
    serial,     \* serial[i]: the number of the call running in slot i
    calls,      \* calls dispatched so far
    conns,      \* the connections sql.connect has made, by name
    cursors     \* the cursors connection.cursor() has made, by name

vars == <<config, pc, op, request, frame, ret, thrown, serial, calls,
          conns, cursors>>

\* --------------------------------------------------------- configuration
\* src/main.py:15-19: os.getenv gives None for an unset variable
EnvHosts == {None, "", "https://dbc.example"}
EnvTokens == {None, "", "tok"}
EnvPaths == {None, "", "/sql/1.0"}
EnvCatalogs == {None, "", "hive"}
EnvSchemas == {None, "", "staging"}

ValidConfig ==
    [HOST |-> "https://dbc.example", TOKEN |-> "tok", HTTP_PATH |-> "/sql/1.0",
     CATALOG |-> "hive", SCHEMA |-> "staging"]

\* mutant of ConfigComplete: the check of get_workspace_client, which
\* leaves out DATABRICKS_HTTP_PATH
ConfigComplete_no_path(c) == Truthy(c.HOST) /\ Truthy(c.TOKEN)

\* all([DATABRICKS_HOST, DATABRICKS_TOKEN, DATABRICKS_HTTP_PATH])
ConfigComplete(c) == Truthy(c.HOST) /\ Truthy(c.TOKEN) /\ Truthy(c.HTTP_PATH)

MissingConfigMsg ==
    "Missing required environment variables: DATABRICKS_HOST, DATABRICKS_TOKEN, and DATABRICKS_HTTP_PATH must be set"

MissingNamespaceMsg ==
    "Catalog and schema must be provided either as parameters or via DATABRICKS_CATALOG and DATABRICKS_SCHEMA environment variables"

\* server_hostname=DATABRICKS_HOST.replace("https://", "")
server_hostname(host) == replace(host, "https://", "")

\* get_databricks_connection up to the call of sql.connect: the ValueError
\* it raises, or the arguments it passes on
get_databricks_connection(c) ==
    IF ~ConfigComplete(c)
    THEN [raise |-> MissingConfigMsg]
    ELSE [server_hostname |-> server_hostname(c.HOST),
          http_path |-> c.HTTP_PATH,
          access_token |-> c.TOKEN]

\* ------------------------------------------------------- frames, results
NoFrame ==
    [table |-> None, catalog |-> None, schema |-> None, query |-> None,
     max_rows |-> 0, connection |-> 0, cursor |-> 0, full_table_name |-> None,
     results |-> <<>>, columns |-> <<>>, rows |-> <<>>, tables |-> <<>>]

NoRequest == [none |-> TRUE]
NoReturn == [pending |-> TRUE]

IsError(r) == "error" \in DOMAIN r

\* mutant of MissingNamespace: "and" for "or"
MissingNamespace_and(catalog, schema) == ~Truthy(catalog) /\ ~Truthy(schema)

\* if not catalog or not schema
MissingNamespace(catalog, schema) == ~Truthy(catalog) \/ ~Truthy(schema)

\* the mapping each tool's except clause returns
ErrorResult(o, f, e) ==
    CASE o = "get_table_schema" ->
           [error |-> e, catalog |-> f.catalog, schema |-> f.schema,
            table |-> f.table]
      [] o = "execute_sql_query" -> [error |-> e, query |-> f.query]
      [] o = "list_tables" ->
           [error |-> e, catalog |-> f.catalog, schema |-> f.schema]

\* mutant of except_Exception: no except clause, the exception leaves the
\* tool
propagate_Exception(i, f, e) ==
    /\ pc' = [pc EXCEPT ![i] = "raised"]
    /\ ret' = [ret EXCEPT ![i] = NoReturn]
    /\ thrown' = [thrown EXCEPT ![i] = e]
    /\ frame' = [frame EXCEPT ![i] = f]

\* except Exception as e: return {...}; f holds the locals at the raise
except_Exception(i, f, e) ==
    /\ pc' = [pc EXCEPT ![i] = "returned"]
    /\ ret' = [ret EXCEPT ![i] = ErrorResult(op[i], f, e)]
    /\ thrown' = [thrown EXCEPT ![i] = e]
    /\ frame' = [frame EXCEPT ![i] = f]

\* ------------------------------------------------------------------- init
InitWith(Cs) ==
    /\ config \in Cs
    /\ pc = [i \in Inv |-> "idle"]
    /\ op = [i \in Inv |-> "none"]
    /\ request = [i \in Inv |-> NoRequest]
    /\ frame = [i \in Inv |-> NoFrame]
    /\ ret = [i \in Inv |-> NoReturn]
    /\ thrown = [i \in Inv |-> None]
    /\ serial = [i \in Inv |-> 0]
    /\ calls = 0
    /\ conns = <<>>
    /\ cursors = <<>>

\* the complete configuration, and each setting unset or empty in turn
Configs ==
    {[ValidConfig EXCEPT !.HOST = h] : h \in EnvHosts}
    \cup {[ValidConfig EXCEPT !.TOKEN = t] : t \in EnvTokens}
    \cup {[ValidConfig EXCEPT !.HTTP_PATH = p] : p \in EnvPaths}
    \cup {[ValidConfig EXCEPT !.CATALOG = c, !.SCHEMA = n, !.TOKEN = t] :
             c \in EnvCatalogs, n \in EnvSchemas, t \in EnvTokens}

Init == InitWith(Configs)

\* --------------------------------------------------------------- dispatch
\* the protocol layer hands a call to slot i
Dispatch(i, o, req) ==
    /\ pc[i] = "idle"
    /\ calls < MaxCalls
    /\ calls' = calls + 1
    /\ serial' = [serial EXCEPT ![i] = calls + 1]
    /\ op' = [op EXCEPT ![i] = o]
    /\ request' = [request EXCEPT ![i] = req]
    /\ thrown' = [thrown EXCEPT ![i] = None]

\* get_table_schema, lines 64-75: resolve the defaults, return early when
\* the namespace is incomplete, else enter the try block
Call_get_table_schema(i, table, catalog, schema) ==
    /\ Dispatch(i, "get_table_schema",
                [table |-> table, catalog |-> catalog, schema |-> schema])
    /\ LET c == Or(catalog, config.CATALOG)
           s == Or(schema, config.SCHEMA)
       IN  /\ frame' = [frame EXCEPT ![i] =
                 [NoFrame EXCEPT !.table = table, !.catalog = c, !.schema = s]]
           /\ IF MissingNamespace(c, s)
              THEN /\ pc' = [pc EXCEPT ![i] = "returned"]
                   /\ ret' = [ret EXCEPT ![i] =
                         [error |-> MissingNamespaceMsg, table |-> table]]
              ELSE /\ pc' = [pc EXCEPT ![i] = "connect"]
                   /\ ret' = [ret EXCEPT ![i] = NoReturn]
    /\ UNCHANGED <<config, conns, cursors>>

\* execute_sql_query, line 138: enter the try block
Call_execute_sql_query(i, query, max_rows) ==
    /\ Dispatch(i, "execute_sql_query",
                [query |-> query, max_rows |-> max_rows])
    /\ frame' = [frame EXCEPT ![i] =
           [NoFrame EXCEPT !.query = query, !.max_rows = max_rows]]
    /\ pc' = [pc EXCEPT ![i] = "connect"]
    /\ ret' = [ret EXCEPT ![i] = NoReturn]
    /\ UNCHANGED <<config, conns, cursors>>

\* list_tables, lines 188-198
Call_list_tables(i, catalog, schema) ==
    /\ Dispatch(i, "list_tables", [catalog |-> catalog, schema |-> schema])
    /\ LET c == Or(catalog, config.CATALOG)
           s == Or(schema, config.SCHEMA)
       IN  /\ frame' = [frame EXCEPT ![i] =
                 [NoFrame EXCEPT !.catalog = c, !.schema = s]]
           /\ IF MissingNamespace(c, s)
              THEN /\ pc' = [pc EXCEPT ![i] = "returned"]
                   /\ ret' = [ret EXCEPT ![i] = [error |-> MissingNamespaceMsg]]
              ELSE /\ pc' = [pc EXCEPT ![i] = "connect"]
                   /\ ret' = [ret EXCEPT ![i] = NoReturn]
    /\ UNCHANGED <<config, conns, cursors>>

\* the protocol layer takes the returned mapping and the slot is free
\* again; the locals are gone, and with them the last reference to the
\* cursor, so a result set it still held can never be read
Return(i) ==
    /\ pc[i] = "returned"
    /\ pc' = [pc EXCEPT ![i] = "idle"]
    /\ op' = [op EXCEPT ![i] = "none"]
    /\ request' = [request EXCEPT ![i] = NoRequest]
    /\ frame' = [frame EXCEPT ![i] = NoFrame]
    /\ ret' = [ret EXCEPT ![i] = NoReturn]
    /\ thrown' = [thrown EXCEPT ![i] = None]
    /\ cursors' = [k \in DOMAIN cursors |->
                       IF k = frame[i].cursor
                       THEN [cursors[k] EXCEPT !.described = FALSE,
                                               !.description = <<>>,
                                               !.rows = <<>>]
                       ELSE cursors[k]]
    /\ UNCHANGED <<config, serial, calls, conns>>

\* ------------------------------------------------------------ SQL client
\* mutant of sql_connect: a module-level connection is kept and handed out
\* again while it is open
sql_connect_pooled(i, a) ==
    IF \E c \in DOMAIN conns : conns[c].open
    THEN /\ frame' = [frame EXCEPT ![i].connection =
                CHOOSE c \in DOMAIN conns : conns[c].open]
         /\ UNCHANGED conns
    ELSE /\ conns' = (serial[i] :> [open |-> TRUE, creator |-> serial[i],
                                    users |-> {},
                                    server_hostname |-> a.server_hostname])
                     @@ conns
         /\ frame' = [frame EXCEPT ![i].connection = serial[i]]

\* sql.connect(...) answered: a new connection object, bound to the local
\* connection of the caller.  An object is named by the call that made it:
\* a call makes at most one connection and one cursor.
sql_connect(i, a) ==
    /\ conns' = (serial[i] :> [open |-> TRUE, creator |-> serial[i],
                               users |-> {},
                               server_hostname |-> a.server_hostname]) @@ conns
    /\ frame' = [frame EXCEPT ![i].connection = serial[i]]

\* connection = get_databricks_connection(): the ValueError of the missing
\* settings and any fault of sql.connect are raised inside the try block
Connect(i, fault) ==
    /\ pc[i] = "connect"
    /\ LET a == get_databricks_connection(config)
       IN  IF "raise" \in DOMAIN a
           THEN /\ except_Exception(i, frame[i], a.raise)
                /\ UNCHANGED conns
           ELSE IF fault
           THEN /\ except_Exception(i, frame[i], "sql.connect: fault")
                /\ UNCHANGED conns
           ELSE /\ sql_connect(i, a)
                /\ pc' = [pc EXCEPT ![i] = "cursor"]
                /\ UNCHANGED <<ret, thrown>>
    /\ UNCHANGED <<config, op, request, serial, calls, cursors>>

\* a method of connection c called by invocation i
UseConnection(c, i) ==
    [conns EXCEPT ![c].users = @ \cup {serial[i]}]

\* cursor = connection.cursor()
Cursor(i, fault) ==
    /\ pc[i] = "cursor"
    /\ conns' = UseConnection(frame[i].connection, i)
    /\ IF fault
       THEN /\ except_Exception(i, frame[i], "connection.cursor: fault")
            /\ UNCHANGED cursors
       ELSE /\ cursors' =
                   (serial[i] :> [connection |-> frame[i].connection,
                                  open |-> TRUE, creator |-> serial[i],
                                  users |-> {}, executed |-> 0,
                                  described |-> FALSE, description |-> <<>>,
                                  rows |-> <<>>]) @@ cursors
            /\ frame' = [frame EXCEPT ![i].cursor = serial[i]]
            /\ pc' = [pc EXCEPT ![i] = "execute"]
            /\ UNCHANGED <<ret, thrown>>
    /\ UNCHANGED <<config, op, request, serial, calls>>

\* a method of cursor k called by invocation i
UseCursor(k, i) ==
    [cursors EXCEPT ![k].users = @ \cup {serial[i]}]

\* cursor.execute(query) with the locals f: the statement f.query goes to
\* the engine, which raises or holds the result set rs for the cursor
execute(i, f, fault, rs) ==
    /\ IF fault
       THEN /\ except_Exception(i, f, "cursor.execute: fault")
            /\ cursors' = [UseCursor(f.cursor, i) EXCEPT
                   ![f.cursor].executed = @ + 1]
       ELSE /\ cursors' = [UseCursor(f.cursor, i) EXCEPT
                   ![f.cursor].executed = @ + 1,
                   ![f.cursor].described = rs.described,
                   ![f.cursor].description = rs.description,
                   ![f.cursor].rows = rs.rows]
            /\ pc' = [pc EXCEPT ![i] = "fetch"]
            /\ UNCHANGED <<ret, thrown>>

\* full_table_name = f"{catalog}.{schema}.{table}"
full_table_name(catalog, schema, table) ==
    catalog \o "." \o schema \o "." \o table

\* get_table_schema, lines 80-83; the engine faults when F allows it, or
\* answers with a result set of RS
Execute_get_table_schema(i, F, RS) ==
    /\ pc[i] = "execute"
    /\ op[i] = "get_table_schema"
    /\ LET name == full_table_name(frame[i].catalog, frame[i].schema,
                                   frame[i].table)
           f == [frame[i] EXCEPT !.full_table_name = name,
                                 !.query = "DESCRIBE TABLE " \o name]
       IN  \E fault \in F, rs \in RS :
               /\ execute(i, f, fault, rs)
               /\ IF fault THEN TRUE ELSE frame' = [frame EXCEPT ![i] = f]
    /\ UNCHANGED <<config, op, request, serial, calls, conns>>

\* mutant of column_names: desc[1], the type code, for desc[0]
column_names_type(cur) ==
    IF cur.described /\ cur.description # <<>>
    THEN [k \in 1..Len(cur.description) |-> cur.description[k][2]]
    ELSE <<>>

\* columns = [desc[0] for desc in cursor.description]
\*           if cursor.description else []
column_names(cur) ==
    IF cur.described /\ cur.description # <<>>
    THEN [k \in 1..Len(cur.description) |-> cur.description[k][1]]
    ELSE <<>>

\* execute_sql_query, lines 142-145
Execute_execute_sql_query(i, F, RS) ==
    /\ pc[i] = "execute"
    /\ op[i] = "execute_sql_query"
    /\ \E fault \in F, rs \in RS :
           /\ execute(i, frame[i], fault, rs)
           /\ IF fault THEN TRUE
              ELSE frame' = [frame EXCEPT ![i].columns =
                                 column_names(cursors'[frame[i].cursor])]
    /\ UNCHANGED <<config, op, request, serial, calls, conns>>

\* list_tables, lines 203-204
Execute_list_tables(i, F, RS) ==
    /\ pc[i] = "execute"
    /\ op[i] = "list_tables"
    /\ LET f == [frame[i] EXCEPT !.query =
                    "SHOW TABLES IN " \o frame[i].catalog \o "." \o frame[i].schema]
       IN  \E fault \in F, rs \in RS :
               /\ execute(i, f, fault, rs)
               /\ IF fault THEN TRUE ELSE frame' = [frame EXCEPT ![i] = f]
    /\ UNCHANGED <<config, op, request, serial, calls, conns>>

\* cursor.fetchmany(size) of the SQL client on a result set with rows left:
\* a negative size is a ValueError, else the next size rows are handed over
fetchmany(rows, size) ==
    IF size < 0
    THEN [raise |-> "size argument for fetchmany must be >= 0"]
    ELSE LET n == IF size < Len(rows) THEN size ELSE Len(rows)
         IN  [rows |-> SubSeq(rows, 1, n), left |-> SubSeq(rows, n + 1, Len(rows))]

\* cursor.fetchall(): every row left
fetchall(rows) == [rows |-> rows, left |-> <<>>]

\* results = cursor.fetchall() (lines 84, 205) or
\* results = cursor.fetchmany(max_rows) (line 148)
Fetch(i, fault) ==
    /\ pc[i] = "fetch"
    /\ LET k == frame[i].cursor
           r == IF op[i] = "execute_sql_query"
                THEN fetchmany(cursors[k].rows, frame[i].max_rows)
                ELSE fetchall(cursors[k].rows)
       IN  IF fault
           THEN /\ except_Exception(i, frame[i], "cursor.fetch: fault")
                /\ cursors' = UseCursor(k, i)
           ELSE IF "raise" \in DOMAIN r
           THEN /\ except_Exception(i, frame[i], r.raise)
                /\ cursors' = UseCursor(k, i)
           ELSE /\ cursors' = [UseCursor(k, i) EXCEPT ![k].rows = r.left]
                /\ frame' = [frame EXCEPT ![i].results = r.rows]
                /\ pc' = [pc EXCEPT ![i] = "parse"]
                /\ UNCHANGED <<ret, thrown>>
    /\ UNCHANGED <<config, op, request, serial, calls, conns>>

IndexErrorMsg == "tuple index out of range"

\* mutant of describe_columns: the test of the comment marker is left out
RECURSIVE describe_columns_keep_headers(_, _)
describe_columns_keep_headers(results, columns) ==
    IF Len(results) = 0 THEN [columns |-> columns]
    ELSE LET row == Head(results)
         IN  IF Len(row) < 1 THEN [raise |-> IndexErrorMsg]
             ELSE IF Truthy(row[1])
             THEN IF Len(row) < 2 THEN [raise |-> IndexErrorMsg]
                  ELSE describe_columns_keep_headers(Tail(results),
                           Append(columns,
                               [name |-> row[1], type |-> row[2],
                                comment |-> IF Len(row) > 2 THEN row[3]
                                            ELSE None]))
             ELSE describe_columns_keep_headers(Tail(results), columns)

\* get_table_schema, lines 87-95: the loop over results, columns being the
\* list built so far; row[0], row[1], row[2] are row[1], row[2], row[3] here
RECURSIVE describe_columns(_, _)
describe_columns(results, columns) ==
    IF Len(results) = 0 THEN [columns |-> columns]
    ELSE LET row == Head(results)
         IN  IF Len(row) < 1 THEN [raise |-> IndexErrorMsg]
             ELSE IF Truthy(row[1]) /\ ~startswith(row[1], "#")
             THEN IF Len(row) < 2 THEN [raise |-> IndexErrorMsg]
                  ELSE describe_columns(Tail(results),
                           Append(columns,
                               [name |-> row[1], type |-> row[2],
                                comment |-> IF Len(row) > 2 THEN row[3]
                                            ELSE None]))
             ELSE describe_columns(Tail(results), columns)

\* execute_sql_query, lines 153-155: row_dict[col] = row[i] in column order,
\* so the last column of a name gives its value
row_dict(columns, row) ==
    [c \in Range(columns) |->
        row[CHOOSE k \in 1..Len(columns) :
                /\ columns[k] = c
                /\ \A m \in 1..Len(columns) : columns[m] = c => m <= k]]

\* execute_sql_query, lines 151-156
RECURSIVE query_rows(_, _, _)
query_rows(results, columns, rows) ==
    IF Len(results) = 0 THEN [rows |-> rows]
    ELSE IF Len(Head(results)) < Len(columns) THEN [raise |-> IndexErrorMsg]
    ELSE query_rows(Tail(results), columns,
                    Append(rows, row_dict(columns, Head(results))))

\* list_tables, lines 208-214: row[1] is row[2] here, row[2] is row[3]
RECURSIVE table_infos(_, _)
table_infos(results, tables) ==
    IF Len(results) = 0 THEN [tables |-> tables]
    ELSE LET row == Head(results)
         IN  IF Len(row) < 2 THEN [raise |-> IndexErrorMsg]
             ELSE table_infos(Tail(results),
                      Append(tables,
                          [name |-> row[2],
                           is_temporary |-> IF Len(row) > 2 THEN row[3]
                                            ELSE FALSE]))

\* the parsing loop of each tool; an IndexError is caught like any fault
Parse(i) ==
    /\ pc[i] = "parse"
    /\ LET f == frame[i]
           r == CASE op[i] = "get_table_schema" ->
                       describe_columns(f.results, <<>>)
                  [] op[i] = "execute_sql_query" ->
                       query_rows(f.results, f.columns, <<>>)
                  [] op[i] = "list_tables" -> table_infos(f.results, <<>>)
       IN  IF "raise" \in DOMAIN r
           THEN except_Exception(i, f, r.raise)
           ELSE /\ frame' = [frame EXCEPT ![i] =
                       CASE op[i] = "get_table_schema" ->
                              [f EXCEPT !.columns = r.columns]
                         [] op[i] = "execute_sql_query" ->
                              [f EXCEPT !.rows = r.rows]
                         [] op[i] = "list_tables" ->
                              [f EXCEPT !.tables = r.tables]]
                /\ pc' = [pc EXCEPT ![i] = "close"]
                /\ UNCHANGED <<ret, thrown>>
    /\ UNCHANGED <<config, op, request, serial, calls, conns, cursors>>

\* mutant of truncated: ">" for ">="
truncated_strict(n, max_rows) == n > max_rows

\* "truncated": len(rows) >= max_rows
truncated(n, max_rows) == n >= max_rows

\* the mapping each tool returns at the end of its try block
SuccessResult(o, f) ==
    CASE o = "get_table_schema" ->
           [catalog |-> f.catalog, schema |-> f.schema, table |-> f.table,
            full_name |-> f.full_table_name, columns |-> f.columns]
      [] o = "execute_sql_query" ->
           [query |-> f.query, columns |-> f.columns, rows |-> f.rows,
            row_count |-> Len(f.rows),
            truncated |-> truncated(Len(f.rows), f.max_rows)]
      [] o = "list_tables" ->
           [catalog |-> f.catalog, schema |-> f.schema, tables |-> f.tables,
            table_count |-> Len(f.tables),
            usage_hint |-> "To query these tables, use the full name: "
                           \o f.catalog \o "." \o f.schema \o ".<table_name>"]

\* cursor.close(); connection.close(); return {...}: either close may
\* raise, which leaves its object open and skips what follows
Close(i, fault) ==
    /\ pc[i] = "close"
    /\ LET k == frame[i].cursor
           c == frame[i].connection
       IN  /\ cursors' = [UseCursor(k, i) EXCEPT
                  ![k].open = (fault = "cursor.close")]
           /\ conns' = IF fault = "cursor.close" THEN conns
                       ELSE [UseConnection(c, i) EXCEPT
                                ![c].open = (fault = "connection.close")]
    /\ IF fault # "none"
       THEN except_Exception(i, frame[i], fault \o ": fault")
       ELSE /\ ret' = [ret EXCEPT ![i] = SuccessResult(op[i], frame[i])]
            /\ pc' = [pc EXCEPT ![i] = "returned"]
            /\ UNCHANGED <<frame, thrown>>
    /\ UNCHANGED <<config, op, request, serial, calls>>

CloseFaults == {"none", "cursor.close", "connection.close"}

\* ----------------------------------------------------------------- inputs
DefaultMaxRows == 1000

Tables == {"users"}
CatalogArgs == {None, "", "main"}
SchemaArgs == {None, "", "default"}
Queries == {"SELECT * FROM main.default.t"}
MaxRowsArgs == (-1..MaxN) \cup {DefaultMaxRows}

\* rows DESCRIBE TABLE answers with: columns, a two-field row, a section
\* header, the blank line before it, a null row
DescribeRows ==
    {<<"id", "bigint", None>>, <<"name", "string">>,
     <<"# Partition Information", "", "">>, <<"", "", "">>,
     <<None, None, None>>}

\* a row too short for the loop that parses it
ShortRow == <<"id">>

DescribeDescription ==
    <<(<<"col_name", "string">>), (<<"data_type", "string">>),
      (<<"comment", "string">>)>>

ResultSet(description, rows) ==
    [described |-> TRUE, description |-> description, rows |-> rows]

\* a statement without a result set: cursor.description is None
NoResultSet == [described |-> FALSE, description |-> <<>>, rows |-> <<>>]

\* rows SHOW TABLES answers with: (database, tableName, isTemporary), a row
\* without isTemporary
ShowRows ==
    {<<"default", "users", FALSE>>, <<"default", "tmp", TRUE>>,
     <<"default", "v">>}

ShowDescription ==
    <<(<<"database", "string">>), (<<"tableName", "string">>),
      (<<"isTemporary", "boolean">>)>>

OneColumn == <<(<<"a", "int">>)>>
TwoColumns == <<(<<"a", "int">>), (<<"b", "int">>)>>
SameColumns == <<(<<"a", "int">>), (<<"a", "int">>)>>

\* every answer of the engine with at most n rows, by statement
Results(n) ==
    [describe |-> {ResultSet(DescribeDescription, rows) :
                      rows \in SeqsUpTo(DescribeRows, n)},
     query |-> {NoResultSet, ResultSet(<<>>, <<>>)}
               \cup {ResultSet(OneColumn, rows) :
                        rows \in SeqsUpTo({<<1>>, <<2>>}, n)}
               \cup {ResultSet(d, rows) :
                        d \in {TwoColumns, SameColumns},
                        rows \in SeqsUpTo({<<1, 10>>, <<2, 20>>}, n)},
     show |-> {ResultSet(ShowDescription, rows) :
                  rows \in SeqsUpTo(ShowRows, n)}]

AllResults == Results(MaxRows)
NoRows == Results(0)

\* a few answers: no row, one row, one row too short to parse
FewResults ==
    [describe |-> {ResultSet(DescribeDescription, rows) :
                      rows \in {<<>>, <<(<<"id", "bigint", None>>)>>,
                                <<ShortRow>>}},
     query |-> {NoResultSet, ResultSet(OneColumn, <<>>),
                ResultSet(OneColumn, <<(<<1>>)>>),
                ResultSet(TwoColumns, <<(<<1>>)>>)},
     show |-> {ResultSet(ShowDescription, rows) :
                  rows \in {<<>>, <<(<<"default", "users", FALSE>>)>>,
                            <<(<<"default">>)>>}}]

Idle == \A j \in Inv : pc[j] = "idle"

\* the steps of invocation i with arguments from T, C, S, Q, N, engine
\* answers from R and engine faults from F; one call at a time when
\* sequential
Steps(i, sequential, T, C, S, Q, N, R, F) ==
    \/ /\ sequential => Idle
       /\ \E t \in T, c \in C, s \in S : Call_get_table_schema(i, t, c, s)
    \/ /\ sequential => Idle
       /\ \E q \in Q, n \in N : Call_execute_sql_query(i, q, n)
    \/ /\ sequential => Idle
       /\ \E c \in C, s \in S : Call_list_tables(i, c, s)
    \/ \E fault \in F : Connect(i, fault)
    \/ \E fault \in F : Cursor(i, fault)
    \/ Execute_get_table_schema(i, F, R.describe)
    \/ Execute_execute_sql_query(i, F, R.query)
    \/ Execute_list_tables(i, F, R.show)
    \/ \E fault \in F : Fetch(i, fault)
    \/ Parse(i)
    \/ \E fault \in {"none"} \cup {c \in CloseFaults : TRUE \in F} :
           Close(i, fault)
    \/ Return(i)

\* every configuration and argument, every fault, calls one at a time
Next ==
    \E i \in Inv :
        Steps(i, TRUE, Tables, CatalogArgs, SchemaArgs, Queries,
              {1, DefaultMaxRows}, FewResults, BOOLEAN)

Spec == Init /\ [][Next]_vars

\* a complete configuration, every result set, no fault but those of the
\* arguments and rows, calls one at a time
DataInit == InitWith({ValidConfig})

DataNext ==
    \E i \in Inv :
        Steps(i, TRUE, Tables, {None, "main"}, {"default"}, Queries,
              MaxRowsArgs, AllResults, {FALSE})

DataSpec == DataInit /\ [][DataNext]_vars

\* calls dispatched while others run: a complete configuration and one
\* without a token, no fault of the engine
ConcInit == InitWith({ValidConfig, [ValidConfig EXCEPT !.TOKEN = None]})

ConcNext ==
    \E i \in Inv :
        Steps(i, FALSE, Tables, {"main"}, {"", "default"}, Queries,
              {1}, NoRows, {FALSE})

ConcSpec == ConcInit /\ [][ConcNext]_vars

\* hosts assembled from scheme prefixes and name parts
HostPieces == {"https://", "http://", "dbc", ".example"}

RECURSIVE Concat(_)
Concat(ps) == IF Len(ps) = 0 THEN "" ELSE Head(ps) \o Concat(Tail(ps))

Hosts == {Concat(ps) : ps \in SeqsUpTo(HostPieces, MaxPieces)}

\* every host, calls one at a time
HostInit == InitWith({[ValidConfig EXCEPT !.HOST = h] : h \in Hosts})

HostNext ==
    \E i \in Inv :
        Steps(i, TRUE, Tables, {"main"}, {"default"}, Queries, {1}, NoRows,
              {FALSE})

HostSpec == HostInit /\ [][HostNext]_vars

\* ----------------------------------------------------------------- claims
\* v is unset or empty
Unset(v) == v = None \/ v = ""

\* an argument after falling back to the configured default
Resolved(arg, default) == IF Unset(arg) THEN default ELSE arg

\* the calls that have not finished
Running == {serial[i] : i \in {j \in Inv : pc[j] \notin {"idle", "returned", "raised"}}}

NamespaceIncomplete(i) ==
    /\ op[i] \in {"get_table_schema", "list_tables"}
    /\ \/ Unset(Resolved(request[i].catalog, config.CATALOG))
       \/ Unset(Resolved(request[i].schema, config.SCHEMA))

ConfigIncomplete ==
    Unset(config.HOST) \/ Unset(config.TOKEN) \/ Unset(config.HTTP_PATH)

\* invocation i has asked for a connection
RequestedConnection(i) ==
    pc[i] \notin {"idle", "connect"} /\ ~NamespaceIncomplete(i)

\* C1: every connection and cursor made by a call that has finished is
\* closed, whichever way the call ended (success, or a fault of cursor(),
\* execute(), fetchall()/fetchmany() or of the parsing)
C1_ReleasedOnEveryPath ==
    /\ \A c \in DOMAIN conns :
           conns[c].creator \notin Running => ~conns[c].open
    /\ \A k \in DOMAIN cursors :
           cursors[k].creator \notin Running => ~cursors[k].open

SuccessKeys(o) ==
    CASE o = "get_table_schema" ->
           {"catalog", "schema", "table", "full_name", "columns"}
      [] o = "execute_sql_query" ->
           {"query", "columns", "rows", "row_count", "truncated"}
      [] o = "list_tables" ->
           {"catalog", "schema", "tables", "table_count", "usage_hint"}

ErrorKeys(o) ==
    CASE o = "get_table_schema" ->
           {{"error", "table"}, {"error", "catalog", "schema", "table"}}
      [] o = "execute_sql_query" -> {{"error", "query"}}
      [] o = "list_tables" -> {{"error"}, {"error", "catalog", "schema"}}

\* C2: no invocation ends with an exception leaving the tool; an invocation
\* that saw an exception has returned an ErrorResult with its message, and
\* a returned mapping is either the tool's success mapping (no "error" key)
\* or one of its ErrorResults
C2_ReturnsMappingNeverRaises ==
    \A i \in Inv :
        /\ pc[i] # "raised"
        /\ thrown[i] # None =>
               /\ pc[i] = "returned"
               /\ IsError(ret[i])
               /\ ret[i].error = thrown[i]
        /\ pc[i] = "returned" =>
               \/ DOMAIN ret[i] = SuccessKeys(op[i])
               \/ DOMAIN ret[i] \in ErrorKeys(op[i])
        /\ pc[i] # "returned" => ret[i] = NoReturn

\* C2's case: the parsing loop raised an IndexError and the tool returned it
C2_Witness ==
    \E i \in Inv :
        pc[i] = "returned" /\ thrown[i] = IndexErrorMsg /\ IsError(ret[i])

C4_NamespaceErrorWithoutEngine ==
    \A i \in Inv :
        (pc[i] # "idle" /\ NamespaceIncomplete(i)) =>
            /\ pc[i] = "returned"
            /\ ret[i] = IF op[i] = "get_table_schema"
                        THEN [error |-> MissingNamespaceMsg,
                              table |-> request[i].table]
                        ELSE [error |-> MissingNamespaceMsg]
            /\ serial[i] \notin DOMAIN conns
            /\ serial[i] \notin DOMAIN cursors

\* C4's case: get_table_schema called with a catalog but an empty schema
\* and no default schema, the token being unset as well
C4_Witness ==
    \E i \in Inv :
        /\ op[i] = "get_table_schema"
        /\ pc[i] = "returned"
        /\ request[i].catalog = "main"
        /\ request[i].schema = ""
        /\ config.SCHEMA = None
        /\ Unset(config.TOKEN)

\* an exception caught by get_table_schema or list_tables
ExecutionFault(i) ==
    /\ pc[i] = "returned"
    /\ op[i] \in {"get_table_schema", "list_tables"}
    /\ thrown[i] # None

\* C10 as stated: the ErrorResult of an execution fault carries the fault's
\* message and the catalog, schema (and table) the caller passed
C10_Original ==
    \A i \in Inv :
        ExecutionFault(i) =>
            /\ ret[i].error = thrown[i]
            /\ ret[i].catalog = request[i].catalog
            /\ ret[i].schema = request[i].schema
            /\ op[i] = "get_table_schema" => ret[i].table = request[i].table

\* C10 as amended: the ErrorResult of an execution fault carries the
\* fault's message, the table the caller passed, and the catalog and schema
\* after the fallback: the caller's value when it is non-empty, else the
\* configured default
C10_EchoesResolvedNamespace ==
    \A i \in Inv :
        ExecutionFault(i) =>
            /\ ret[i].error = thrown[i]
            /\ ret[i].catalog = Resolved(request[i].catalog, config.CATALOG)
            /\ ret[i].schema = Resolved(request[i].schema, config.SCHEMA)
            /\ op[i] = "get_table_schema" => ret[i].table = request[i].table

\* C10's case: the caller left the catalog out, the default was used and
\* cursor.execute raised
C10_Witness ==
    \E i \in Inv :
        /\ ExecutionFault(i)
        /\ request[i].catalog = None
        /\ ret[i].catalog = "hive"
        /\ thrown[i] = "cursor.execute: fault"

\* a successful execute_sql_query
QuerySucceeded(i) ==
    pc[i] = "returned" /\ op[i] = "execute_sql_query" /\ ~IsError(ret[i])

\* C5: a successful execute_sql_query(q, max_rows=N) returns at most N rows,
\* row_count is the number of rows returned, and truncated is true exactly
\* when that number is N
C5_AtMostMaxRows ==
    \A i \in Inv :
        QuerySucceeded(i) =>
            /\ Len(ret[i].rows) <= request[i].max_rows
            /\ ret[i].row_count = Len(ret[i].rows)
            /\ ret[i].truncated <=> (Len(ret[i].rows) = request[i].max_rows)

\* C5's case: the engine held more than the N = 2 rows asked for, two rows
\* came back and truncated is true
C5_Witness ==
    \E i \in Inv :
        /\ QuerySucceeded(i)
        /\ request[i].max_rows = 2
        /\ Len(cursors[serial[i]].rows) > 0
        /\ ret[i].row_count = 2
        /\ ret[i].truncated

\* the result set of invocation i's statement had no rows: none fetched,
\* none left
YieldedNoRows(i) ==
    Len(frame[i].results) = 0 /\ Len(cursors[serial[i]].rows) = 0

\* the names in the description of invocation i's result set
DescribedNames(i) ==
    LET cur == cursors[serial[i]]
    IN  IF cur.described
        THEN [k \in 1..Len(cur.description) |-> cur.description[k][1]]
        ELSE <<>>

\* C6 as stated: a successful execute_sql_query whose statement yields no
\* rows returns the result's column names, no rows, row_count 0 and
\* truncated false, for every max_rows
C6_Original ==
    \A i \in Inv :
        (QuerySucceeded(i) /\ YieldedNoRows(i)) =>
            /\ ret[i].columns = DescribedNames(i)
            /\ Len(ret[i].rows) = 0
            /\ ret[i].row_count = 0
            /\ ret[i].truncated = FALSE

\* C6 as amended: a successful execute_sql_query whose statement yields no
\* rows returns the result's column names, no rows and row_count 0;
\* truncated is false for every max_rows >= 1 and true for max_rows = 0
C6_EmptyResult ==
    \A i \in Inv :
        (QuerySucceeded(i) /\ YieldedNoRows(i)) =>
            /\ ret[i].columns = DescribedNames(i)
            /\ Len(ret[i].rows) = 0
            /\ ret[i].row_count = 0
            /\ ret[i].truncated <=> (request[i].max_rows = 0)

\* C6's case: two columns described, no rows, max_rows = 0
C6_Witness ==
    \E i \in Inv :
        /\ QuerySucceeded(i)
        /\ YieldedNoRows(i)
        /\ request[i].max_rows = 0
        /\ Len(ret[i].columns) = 2
        /\ ret[i].truncated

\* name starts with the comment marker
Marked(name) == Len(name) >= 1 /\ SubSeq(name, 1, 1) = "#"

NotMarked(row) == ~Marked(row[1])

NamedNotMarked(row) == ~Unset(row[1]) /\ ~Marked(row[1])

\* the {name, type, comment} descriptor of a DESCRIBE TABLE row
Descriptor(row) ==
    [name |-> row[1], type |-> row[2],
     comment |-> IF Len(row) >= 3 THEN row[3] ELSE None]

Descriptors(rows) == [k \in 1..Len(rows) |-> Descriptor(rows[k])]

\* a successful get_table_schema
SchemaSucceeded(i) ==
    pc[i] = "returned" /\ op[i] = "get_table_schema" /\ ~IsError(ret[i])

\* C7 as stated: the columns of a successful get_table_schema hold no name
\* starting with "#" and are, in engine order, the descriptors of every
\* returned row whose name does not start with "#"
C7_Original ==
    \A i \in Inv :
        SchemaSucceeded(i) =>
            /\ \A k \in 1..Len(ret[i].columns) : ~Marked(ret[i].columns[k].name)
            /\ ret[i].columns = Descriptors(SelectSeq(frame[i].results, NotMarked))

\* C7 as amended: the columns of a successful get_table_schema hold no name
\* starting with "#" and are, in engine order, the descriptors of every
\* returned row whose name is neither null nor empty and does not start
\* with "#"
C7_ColumnsAreNamedUnmarkedRows ==
    \A i \in Inv :
        SchemaSucceeded(i) =>
            /\ \A k \in 1..Len(ret[i].columns) : ~Marked(ret[i].columns[k].name)
            /\ ret[i].columns =
                   Descriptors(SelectSeq(frame[i].results, NamedNotMarked))

\* C7's case: a three-field row, a two-field row and a section header
C7_Witness ==
    \E i \in Inv :
        /\ SchemaSucceeded(i)
        /\ frame[i].results =
               <<(<<"id", "bigint", None>>), (<<"name", "string">>),
                 (<<"# Partition Information", "", "">>)>>
        /\ Len(ret[i].columns) = 2
        /\ ret[i].columns[2].comment = None

\* every connection and cursor is used by the call that made it only, a
\* cursor is on a connection of its own call, the locals of an invocation
\* refer to objects its call made, and no two invocations refer to one
\* connection or one cursor
Owned ==
    /\ \A c \in DOMAIN conns : conns[c].users \subseteq {conns[c].creator}
    /\ \A k \in DOMAIN cursors :
           /\ cursors[k].users \subseteq {cursors[k].creator}
           /\ conns[cursors[k].connection].creator = cursors[k].creator
    /\ \A i \in Inv :
           /\ frame[i].connection # 0 =>
                  conns[frame[i].connection].creator = serial[i]
           /\ frame[i].cursor # 0 =>
                  cursors[frame[i].cursor].creator = serial[i]
    /\ \A i, j \in Inv :
           (i # j /\ frame[i].connection # 0) =>
               frame[i].connection # frame[j].connection

\* C8: under every interleaving each invocation uses the connection and
\* cursor it made itself and no other, no connection serves two calls, and
\* the configuration never changes
C8_OwnConnectionOnly == [][config' = config /\ Owned']_vars

\* C8's case: two invocations in flight, each with an open connection
C8_Witness ==
    \E i, j \in Inv :
        /\ i # j
        /\ pc[i] = "fetch"
        /\ pc[j] = "close"
        /\ conns[frame[i].connection].open
        /\ conns[frame[j].connection].open

SchemePrefixes == {"https://", "http://"}

\* host without its leading scheme prefix, nothing else changed
WithoutLeadingScheme(host) ==
    IF \E p \in SchemePrefixes : startswith(host, p)
    THEN LET p == CHOOSE q \in SchemePrefixes : startswith(host, q)
         IN  SubSeq(host, Len(p) + 1, Len(host))
    ELSE host

\* C9: the hostname given to the SQL client is the configured host without
\* its leading scheme prefix ("https://", "http://") and otherwise unchanged
C9_LeadingSchemeStripped ==
    \A c \in DOMAIN conns :
        conns[c].server_hostname = WithoutLeadingScheme(config.HOST)
====
